---------------------------- MODULE Spec2Model ----------------------------
(***************************************************************************)
(* Model of the bucket scheduler of go-timescheduler (package schedule,    *)
(* src/cmd/timer.go).  Time is a natural number of clock units; a          *)
(* time.Time is the number of units since the program started.  An item    *)
(* (a Schedulable) is a record [id, due].  A TimespanBucket is a record    *)
(* [startTime, endTime, elements].  Go slices are 0-based; the sequences   *)
(* below are 1-based, so bucket index i of the source is buckets[i+1].     *)
(*                                                                         *)
(* NewScheduler is modelled one loop iteration at a time, because every    *)
(* iteration reads the clock afresh (time.Now() at line 108) and the clock *)
(* may advance between two reads.  In Spec and SpecDue one caller runs    *)
(* AddReminder, Due and Dump under the scheduler mutex, each as one step,  *)
(* update() included, reading the clock at one instant.  In SpecConc       *)
(* several callers run them as lock, update, body and unlock steps, and    *)
(* the clock may advance between the steps.  The per-bucket locks are      *)
(* only ever taken by the holder of the scheduler mutex, inside a step.    *)
(***************************************************************************)
EXTENDS Integers, Sequences, FiniteSets

VARIABLES now, pc, numBlocks, buckets, ops, added, exact, returned, last,
          mutex, tpc, call

vars == <<now, pc, numBlocks, buckets, ops, added, exact, returned, last,
          mutex, tpc, call>>

\* the scheduler mutex and the position and arguments of every caller
\* thread (used by SpecConc; the other specifications run one caller whose
\* operations are whole steps)
threadVars == <<mutex, tpc, call>>

(* ------------------------------ bounds --------------------------------- *)

\* the clock stops advancing at MaxTime
MaxTime == 7
\* largest numBlocks handed to NewScheduler
MaxBlocks == 3
\* number of public operations (AddReminder, Due, Dump) in one run
MaxOps == 3
\* number of items handed to AddReminder in one run
MaxItems == 2
\* due times of the items are drawn from 0 .. MaxDue
MaxDue == 8

\* number of AddReminder calls that fill the wheel of SpecDue
MaxLen == 3
\* due times of the items that fill the wheel of SpecDue: 0 .. MaxFillDue
MaxFillDue == 4

\* blockSize handed to NewScheduler (time.Second*2 in the example program)
BlockSize == 2

DueTimes == 0 .. MaxDue

NoItem == [id |-> 0, due |-> 0]

(* --------------------------- TimespanBucket ----------------------------- *)

NewTimespanBucket(startTime, endTime) ==
    [startTime |-> startTime, endTime |-> endTime, elements |-> <<>>]

\* startTime.Before(in) && endTime.After(in)
Contains(b, in) == b.startTime < in /\ b.endTime > in

AddEntity(b, entity) == [b EXCEPT !.elements = Append(@, entity)]

\* Past with "not before" in place of After
PastInclusive(b, t) == t >= b.endTime

\* time.Now().After(endTime)
Past(b, t) == t > b.endTime

Size(b) == Len(b.elements)

\* startTime.After(dueTime)
IsAfter(b, dueTime) == b.startTime > dueTime

\* endTime.Before(dueTime)
IsBefore(b, dueTime) == b.endTime < dueTime

(* ------------------------------ update ---------------------------------- *)

\* lines 124-131: the 0-based index of the first bucket that is not Past,
\* 0 when every bucket is Past (startIdx keeps its initial value)
StartIdx(bkts, t) ==
    IF \E i \in 1 .. Len(bkts) : ~Past(bkts[i], t)
    THEN (CHOOSE i \in 1 .. Len(bkts) :
              /\ ~Past(bkts[i], t)
              /\ \A j \in 1 .. (i - 1) : Past(bkts[j], t)) - 1
    ELSE 0

\* lines 133-138: for i in [0, startIdx) with a non-empty bucket i, the
\* elements of bucket 0 (s.buckets[0].elements) are appended
RECURSIVE OverdueItems(_, _)
OverdueItems(bkts, n) ==
    IF n = 0 THEN <<>>
    ELSE OverdueItems(bkts, n - 1) \o
         (IF Size(bkts[n]) > 0 THEN bkts[1].elements ELSE <<>>)

\* NewBuckets where the start of the new buckets is not advanced with
\* currentEndTime (every new bucket starts at the old tail's end)
NewBucketsWide(currentEndTime, startIdx) ==
    [j \in 1 .. (startIdx + 1) |->
        NewTimespanBucket(currentEndTime, currentEndTime + j * BlockSize)]

\* NewBuckets without line 146 (currentEndTime is never advanced)
NewBucketsNoAdvance(currentEndTime, startIdx) ==
    [j \in 1 .. (startIdx + 1) |->
        NewTimespanBucket(currentEndTime, currentEndTime + BlockSize)]

\* lines 142-147: startIdx + 1 new buckets (j := 0; j <= startIdx),
\* each blockSize wide, starting at the end of the last kept bucket
NewBuckets(currentEndTime, startIdx) ==
    [j \in 1 .. (startIdx + 1) |->
        NewTimespanBucket(currentEndTime + (j - 1) * BlockSize,
                          currentEndTime + j * BlockSize)]

\* lines 140-142: s.buckets[startIdx:] needs startIdx <= len(s.buckets), and
\* s.buckets[len(s.buckets)-1] needs a bucket left after the slicing;
\* otherwise update() panics with an index out of range
UpdatePanics(bkts, t) ==
    LET startIdx == StartIdx(bkts, t)
    IN  startIdx > Len(bkts) \/ Len(bkts) - startIdx < 1

\* Update that puts the overdue items in front of the head's own elements
UpdatePrepend(bkts, t) ==
    LET startIdx == StartIdx(bkts, t)
        overdueItems == OverdueItems(bkts, startIdx)
        kept == SubSeq(bkts, startIdx + 1, Len(bkts))
        currentEndTime == kept[Len(kept)].endTime
        all == kept \o NewBuckets(currentEndTime, startIdx)
    IN  [all EXCEPT ![1].elements = overdueItems \o @]

\* lines 122-153, when update() does not panic
Update(bkts, t) ==
    LET startIdx == StartIdx(bkts, t)
        overdueItems == OverdueItems(bkts, startIdx)
        kept == SubSeq(bkts, startIdx + 1, Len(bkts))
        currentEndTime == kept[Len(kept)].endTime
        all == kept \o NewBuckets(currentEndTime, startIdx)
    IN  [all EXCEPT ![1].elements = @ \o overdueItems]

(* ---------------------------- AddReminder ------------------------------- *)

\* lines 173-178: 1-based index of the first bucket that Contains the due
\* time, 0 when there is none
FirstContaining(bkts, dueTime) ==
    IF \E i \in 1 .. Len(bkts) : Contains(bkts[i], dueTime)
    THEN CHOOSE i \in 1 .. Len(bkts) :
              /\ Contains(bkts[i], dueTime)
              /\ \A j \in 1 .. (i - 1) : ~Contains(bkts[j], dueTime)
    ELSE 0

\* TargetBucket without the "too far out" branch of lines 167-171
TargetBucketNoTail(bkts, dueTime) ==
    IF IsAfter(bkts[1], dueTime) THEN 1
    ELSE FirstContaining(bkts, dueTime)

\* lines 161-178: 1-based index of the bucket that receives the entity,
\* 0 when the function returns without storing it
TargetBucket(bkts, dueTime) ==
    IF IsAfter(bkts[1], dueTime) THEN 1
    ELSE IF IsBefore(bkts[Len(bkts)], dueTime) THEN Len(bkts)
    ELSE FirstContaining(bkts, dueTime)

\* lines 161-180, applied to the bucket list left by update()
Place(bkts, entity) ==
    LET k == TargetBucket(bkts, entity.due)
    IN  IF k = 0 THEN bkts ELSE [bkts EXCEPT ![k] = AddEntity(@, entity)]

(* -------------------------------- Due ----------------------------------- *)

\* IsDue with "not after" in place of Before
IsDueInclusive(entity, t) == entity.due <= t

\* entity.DueTime().Before(time.Now())
IsDue(entity, t) == entity.due < t

\* lines 191-197: dueItems, in iteration order
RECURSIVE DueItems(_, _)
DueItems(elems, t) ==
    IF elems = <<>> THEN <<>>
    ELSE (IF IsDue(Head(elems), t) THEN <<Head(elems)>> ELSE <<>>)
         \o DueItems(Tail(elems), t)

\* lines 191-197: removeIdxs, the 0-based indices of the due items
RECURSIVE RemoveIdxsFrom(_, _, _)
RemoveIdxsFrom(elems, t, i) ==
    IF i >= Len(elems) THEN <<>>
    ELSE (IF IsDue(elems[i + 1], t) THEN <<i>> ELSE <<>>)
         \o RemoveIdxsFrom(elems, t, i + 1)

RemoveIdxs(elems, t) == RemoveIdxsFrom(elems, t, 0)

\* line 202: append(elements[:realIdx], elements[realIdx+1:]...)
RemoveAt(elems, realIdx) ==
    SubSeq(elems, 1, realIdx) \o SubSeq(elems, realIdx + 2, Len(elems))

\* RealIdx without the adjustment for the elements already removed
RealIdxNoShift(idx, i) == idx

\* line 201: realIdx := idx - i
RealIdx(idx, i) == idx - i

\* lines 199-203: the i-th removal (0-based i) uses realIdx = idx - i
RECURSIVE RemoveLoop(_, _, _)
RemoveLoop(elems, removeIdxs, i) ==
    IF i >= Len(removeIdxs) THEN elems
    ELSE RemoveLoop(RemoveAt(elems, RealIdx(removeIdxs[i + 1], i)),
                    removeIdxs, i + 1)

\* line 202: elements[:realIdx] and elements[realIdx+1:] need
\* 0 <= realIdx and realIdx + 1 <= len(elements); otherwise the removal
\* loop panics with slice bounds out of range
RECURSIVE RemovePanics(_, _, _)
RemovePanics(elems, removeIdxs, i) ==
    IF i >= Len(removeIdxs) THEN FALSE
    ELSE LET realIdx == RealIdx(removeIdxs[i + 1], i)
         IN  IF realIdx < 0 \/ realIdx + 1 > Len(elems) THEN TRUE
             ELSE RemovePanics(RemoveAt(elems, realIdx), removeIdxs, i + 1)

\* lines 185-203: Due() panics in update() or in its removal loop
DuePanics(bkts, t) ==
    IF UpdatePanics(bkts, t) THEN TRUE
    ELSE LET elems == Update(bkts, t)[1].elements
         IN  RemovePanics(elems, RemoveIdxs(elems, t), 0)

\* Extract that scans every bucket instead of the head only
ExtractAll(bkts, t) ==
    [i \in 1 .. Len(bkts) |->
        [bkts[i] EXCEPT !.elements = RemoveLoop(@, RemoveIdxs(@, t), 0)]]

\* lines 187-205, applied to the bucket list left by update()
Extract(bkts, t) ==
    [bkts EXCEPT ![1].elements = RemoveLoop(@, RemoveIdxs(@, t), 0)]

(* ------------------------------ history --------------------------------- *)

NoLast == [op |-> "none", before |-> <<>>, mid |-> <<>>, startIdx |-> 0,
           entity |-> NoItem, target |-> 0, ret |-> <<>>, at |-> 0]

\* number of occurrences of the item with identifier id in a sequence
RECURSIVE CountIn(_, _)
CountIn(elems, id) ==
    IF elems = <<>> THEN 0
    ELSE (IF Head(elems).id = id THEN 1 ELSE 0) + CountIn(Tail(elems), id)

\* number of occurrences of the item in all buckets of a bucket list
RECURSIVE Stored(_, _)
Stored(bkts, id) ==
    IF bkts = <<>> THEN 0
    ELSE CountIn(Head(bkts).elements, id) + Stored(Tail(bkts), id)

IsBoundary(bkts, t) ==
    \E i \in 1 .. Len(bkts) : bkts[i].startTime = t \/ bkts[i].endTime = t

(* ------------------------------ actions --------------------------------- *)

\* number of caller threads
NumThreads == 2
\* number of public operations called in one run of SpecConc
MaxConcOps == 2

\* in SpecConc the clock stops advancing at MaxConcTime
MaxConcTime == 3
\* in SpecConc the due times of the items are drawn from 0 .. MaxConcDue
MaxConcDue == 3

Threads == 1 .. NumThreads

NoCall == [op |-> "none", entity |-> NoItem, before |-> <<>>, mid |-> <<>>,
           startIdx |-> 0, at |-> 0]

\* line 118: mutex: &sync.Mutex{} (unlocked); no caller is in an operation
ThreadInit ==
    /\ mutex = 0
    /\ tpc = [t \in Threads |-> "idle"]
    /\ call = [t \in Threads |-> NoCall]

Init ==
    /\ now = 0
    /\ pc = "new"
    /\ numBlocks \in 0 .. MaxBlocks
    /\ buckets = <<>>
    /\ ops = 0
    /\ added = {}
    /\ exact = {}
    /\ returned = [i \in 1 .. MaxItems |-> 0]
    /\ last = NoLast
    /\ ThreadInit

\* the wall clock advances, at any moment
Tick ==
    /\ now < MaxTime
    /\ now' = now + 1
    /\ UNCHANGED <<pc, numBlocks, buckets, ops, added, exact, returned, last>>
    /\ UNCHANGED threadVars

\* lines 107-111: one iteration of the loop of NewScheduler
NewSchedulerIter ==
    /\ pc = "new"
    /\ Len(buckets) < numBlocks
    /\ LET startTime == now + Len(buckets) * BlockSize
           endTime == startTime + BlockSize
       IN  buckets' = Append(buckets, NewTimespanBucket(startTime, endTime))
    /\ UNCHANGED <<now, pc, numBlocks, ops, added, exact, returned, last>>
    /\ UNCHANGED threadVars

\* lines 107, 113-119: the loop ends and the scheduler is returned
NewSchedulerReturn ==
    /\ pc = "new"
    /\ ~(Len(buckets) < numBlocks)
    /\ pc' = "ready"
    /\ last' = [NoLast EXCEPT !.op = "NewScheduler", !.at = now]
    /\ UNCHANGED <<now, numBlocks, buckets, ops, added, exact, returned>>
    /\ UNCHANGED threadVars

\* a public operation panics: update() on an empty bucket list indexes
\* s.buckets[len(s.buckets)-1] out of range (line 142), in AddReminder, Due
\* and Dump alike; Due() can also panic in its removal loop (line 202)
OpPanic ==
    /\ pc = "ready"
    /\ \E op \in {"AddReminder", "Due", "Dump"} :
           IF op = "Due" THEN DuePanics(buckets, now)
           ELSE UpdatePanics(buckets, now)
    /\ pc' = "panic"
    /\ last' = [NoLast EXCEPT !.op = "panic", !.at = now]
    /\ UNCHANGED <<now, numBlocks, buckets, ops, added, exact, returned>>
    /\ UNCHANGED threadVars

\* lines 155-180
AddReminder(entity) ==
    /\ pc = "ready"
    /\ ~UpdatePanics(buckets, now)
    /\ ops < MaxOps
    /\ LET mid == Update(buckets, now)
       IN  /\ buckets' = Place(mid, entity)
           /\ last' = [op |-> "AddReminder", before |-> buckets, mid |-> mid,
                       startIdx |-> StartIdx(buckets, now), entity |-> entity,
                       target |-> TargetBucket(mid, entity.due),
                       ret |-> <<>>, at |-> now]
           /\ exact' = IF IsBoundary(mid, entity.due)
                       THEN exact \cup {entity.id} ELSE exact
    /\ added' = added \cup {entity}
    /\ ops' = ops + 1
    /\ UNCHANGED <<now, pc, numBlocks, returned>>
    /\ UNCHANGED threadVars

\* lines 182-206
Due ==
    /\ pc = "ready"
    /\ ~DuePanics(buckets, now)
    /\ ops < MaxOps
    /\ LET mid == Update(buckets, now)
           dueItems == DueItems(mid[1].elements, now)
       IN  /\ buckets' = Extract(mid, now)
           /\ last' = [op |-> "Due", before |-> buckets, mid |-> mid,
                       startIdx |-> StartIdx(buckets, now), entity |-> NoItem,
                       target |-> 0, ret |-> dueItems, at |-> now]
           /\ returned' = [i \in 1 .. MaxItems |->
                               returned[i] + CountIn(dueItems, i)]
    /\ ops' = ops + 1
    /\ UNCHANGED <<now, pc, numBlocks, added, exact>>
    /\ UNCHANGED threadVars

\* lines 208-220 (the printing has no effect on the scheduler)
Dump ==
    /\ pc = "ready"
    /\ ~UpdatePanics(buckets, now)
    /\ ops < MaxOps
    /\ LET mid == Update(buckets, now)
       IN  /\ buckets' = mid
           /\ last' = [op |-> "Dump", before |-> buckets, mid |-> mid,
                       startIdx |-> StartIdx(buckets, now), entity |-> NoItem,
                       target |-> 0, ret |-> <<>>, at |-> now]
    /\ ops' = ops + 1
    /\ UNCHANGED <<now, pc, numBlocks, added, exact, returned>>
    /\ UNCHANGED threadVars

\* the caller hands each item to AddReminder once; items are numbered in
\* the order they are added
NextItem(d) == [id |-> Cardinality(added) + 1, due |-> d]

Next ==
    \/ Tick
    \/ NewSchedulerIter
    \/ NewSchedulerReturn
    \/ OpPanic
    \/ \E d \in DueTimes : Cardinality(added) < MaxItems /\ AddReminder(NextItem(d))
    \/ Due
    \/ Dump

Spec == Init /\ [][Next]_vars

(* ------------- Due() on a wheel filled by a burst of calls --------------- *)

\* the instant at which the wheel of SpecDue is built and filled
FillTime == 1

\* lines 155-180, as a function: AddReminder(entity) at time t
AddReminderAt(bkts, entity, t) == Place(Update(bkts, t), entity)

\* AddReminder called at time t for the items k, k+1, ... with the due
\* times ds[k], ds[k+1], ...
RECURSIVE AddAll(_, _, _, _)
AddAll(bkts, ds, k, t) ==
    IF k > Len(ds) THEN bkts
    ELSE AddAll(AddReminderAt(bkts, [id |-> k, due |-> ds[k]], t), ds, k + 1, t)

\* lines 104-120 with numBlocks = 1 and the clock at t
OneBlock(t) == <<NewTimespanBucket(t, t + BlockSize)>>

FillDueSeqs == UNION {[1 .. n -> 0 .. MaxFillDue] : n \in 0 .. MaxLen}

\* NewScheduler(blockSize, 1) followed at once by AddReminder for up to
\* MaxLen items, all at the instant FillTime
InitDue ==
    /\ now = FillTime
    /\ pc = "ready"
    /\ numBlocks = 1
    /\ \E ds \in FillDueSeqs :
           /\ buckets = AddAll(OneBlock(FillTime), ds, 1, FillTime)
           /\ added = {[id |-> k, due |-> ds[k]] : k \in 1 .. Len(ds)}
    /\ exact = {it.id : it \in {e \in added : Stored(buckets, e.id) = 0}}
    /\ ops = 0
    /\ returned = [i \in 1 .. MaxItems |-> 0]
    /\ last = [NoLast EXCEPT !.op = "AddReminder", !.at = FillTime]
    /\ ThreadInit

NextDue == Tick \/ Due

SpecDue == InitDue /\ [][NextDue]_vars

(* ------------------ several callers on one scheduler -------------------- *)

\* Lock() that does not wait for the mutex
MutexIgnored(m) == TRUE

\* s.mutex.Lock() returns only when the mutex is unlocked
MutexFree(m) == m = 0

\* the wall clock advances, at any moment, also while a caller is inside an
\* operation
ConcTick == now < MaxConcTime /\ Tick

\* lines 156, 183, 209: a caller enters a public operation and acquires the
\* scheduler mutex
Lock(t, op, entity) ==
    /\ pc = "ready"
    /\ tpc[t] = "idle"
    /\ ops < MaxConcOps
    /\ MutexFree(mutex)
    /\ mutex' = t
    /\ tpc' = [tpc EXCEPT ![t] = "locked"]
    /\ call' = [call EXCEPT ![t] = [NoCall EXCEPT !.op = op, !.entity = entity,
                                                  !.before = buckets]]
    /\ added' = IF op = "AddReminder" THEN added \cup {entity} ELSE added
    /\ ops' = ops + 1
    /\ UNCHANGED <<now, pc, numBlocks, buckets, exact, returned, last>>

\* lines 159, 185, 212: s.update()
UpdateStep(t) ==
    /\ pc = "ready"
    /\ tpc[t] = "locked"
    /\ ~UpdatePanics(buckets, now)
    /\ buckets' = Update(buckets, now)
    /\ call' = [call EXCEPT ![t].mid = buckets',
                            ![t].startIdx = StartIdx(buckets, now),
                            ![t].at = now]
    /\ tpc' = [tpc EXCEPT ![t] = "updated"]
    /\ UNCHANGED <<now, pc, numBlocks, ops, added, exact, returned, last, mutex>>

\* the record of a finished operation of caller t
Done(t, target, ret) ==
    [op |-> call[t].op, before |-> call[t].before, mid |-> call[t].mid,
     startIdx |-> call[t].startIdx, entity |-> call[t].entity,
     target |-> target, ret |-> ret, at |-> call[t].at]

\* lines 161-180
AddReminderBody(t) ==
    /\ pc = "ready"
    /\ tpc[t] = "updated"
    /\ call[t].op = "AddReminder"
    /\ buckets' = Place(buckets, call[t].entity)
    /\ exact' = IF IsBoundary(buckets, call[t].entity.due)
                THEN exact \cup {call[t].entity.id} ELSE exact
    /\ last' = Done(t, TargetBucket(buckets, call[t].entity.due), <<>>)
    /\ tpc' = [tpc EXCEPT ![t] = "unlocking"]
    /\ UNCHANGED <<now, pc, numBlocks, ops, added, returned, mutex, call>>

\* lines 187-205
DueBody(t) ==
    /\ pc = "ready"
    /\ tpc[t] = "updated"
    /\ call[t].op = "Due"
    /\ ~RemovePanics(buckets[1].elements, RemoveIdxs(buckets[1].elements, now), 0)
    /\ LET dueItems == DueItems(buckets[1].elements, now)
       IN  /\ buckets' = Extract(buckets, now)
           /\ last' = Done(t, 0, dueItems)
           /\ returned' = [i \in 1 .. MaxItems |->
                               returned[i] + CountIn(dueItems, i)]
    /\ tpc' = [tpc EXCEPT ![t] = "unlocking"]
    /\ UNCHANGED <<now, pc, numBlocks, ops, added, exact, mutex, call>>

\* lines 214-219
DumpBody(t) ==
    /\ pc = "ready"
    /\ tpc[t] = "updated"
    /\ call[t].op = "Dump"
    /\ last' = Done(t, 0, <<>>)
    /\ tpc' = [tpc EXCEPT ![t] = "unlocking"]
    /\ UNCHANGED <<now, pc, numBlocks, buckets, ops, added, exact, returned,
                   mutex, call>>

\* lines 157, 184, 210: the deferred s.mutex.Unlock() as the operation returns
Unlock(t) ==
    /\ pc = "ready"
    /\ tpc[t] = "unlocking"
    /\ mutex' = 0
    /\ tpc' = [tpc EXCEPT ![t] = "idle"]
    /\ call' = [call EXCEPT ![t] = NoCall]
    /\ UNCHANGED <<now, pc, numBlocks, buckets, ops, added, exact, returned, last>>

\* the operation of caller t panics, in update() (line 142) or in the
\* removal loop of Due() (line 202)
ThreadPanic(t) ==
    /\ pc = "ready"
    /\ IF tpc[t] = "locked" THEN UpdatePanics(buckets, now)
       ELSE /\ tpc[t] = "updated"
            /\ call[t].op = "Due"
            /\ RemovePanics(buckets[1].elements,
                            RemoveIdxs(buckets[1].elements, now), 0)
    /\ pc' = "panic"
    /\ last' = [NoLast EXCEPT !.op = "panic", !.at = now]
    /\ UNCHANGED <<now, numBlocks, buckets, ops, added, exact, returned>>
    /\ UNCHANGED threadVars

NextConc ==
    \/ ConcTick
    \/ NewSchedulerIter
    \/ NewSchedulerReturn
    \/ \E t \in Threads :
          \/ \E d \in 0 .. MaxConcDue :
                Cardinality(added) < MaxItems /\ Lock(t, "AddReminder", NextItem(d))
          \/ Lock(t, "Due", NoItem)
          \/ Lock(t, "Dump", NoItem)
          \/ UpdateStep(t)
          \/ AddReminderBody(t)
          \/ DueBody(t)
          \/ DumpBody(t)
          \/ Unlock(t)
          \/ ThreadPanic(t)

SpecConc == Init /\ [][NextConc]_vars

TypeOK ==
    /\ now \in 0 .. MaxTime
    /\ pc \in {"new", "ready", "panic"}
    /\ numBlocks \in 0 .. MaxBlocks
    /\ ops \in 0 .. MaxOps


(* ------------------------------ claims ---------------------------------- *)

PublicOps == {"AddReminder", "Due", "Dump"}

Ids == 1 .. MaxItems

\* the items of a sequence that satisfy a test on the due time
DueBefore(elems, t) == SelectSeq(elems, LAMBDA e : e.due < t)
DueAtOrBefore(elems, t) == SelectSeq(elems, LAMBDA e : e.due <= t)
DueAtOrAfter(elems, t) == SelectSeq(elems, LAMBDA e : e.due >= t)
DueAfter(elems, t) == SelectSeq(elems, LAMBDA e : e.due > t)

\* C1: every item handed to AddReminder with a due time that is not a
\* window boundary is, at any moment, either stored once in the wheel and
\* not yet returned, or returned by exactly one Due() and no longer stored:
\* it is never lost and never returned twice.
C1_Coverage ==
    pc = "ready" =>
        \A it \in added :
            it.id \notin exact => Stored(buckets, it.id) + returned[it.id] = 1

\* C2: a re-anchor that drops k >= 1 windows keeps the multiset of stored
\* items, and every item of a dropped window is exactly once in the new
\* head window.
C2_Salvage ==
    (last.op \in PublicOps /\ last.startIdx >= 1) =>
        \A id \in Ids :
            /\ Stored(last.mid, id) = Stored(last.before, id)
            /\ Stored(SubSeq(last.before, 1, last.startIdx), id) >= 1
                   => CountIn(last.mid[1].elements, id) = 1

\* C3: after construction with numBlocks >= 1 and after every public
\* operation the wheel has exactly numBlocks windows.
C3_WindowCount ==
    (pc = "ready" /\ numBlocks >= 1) => Len(buckets) = numBlocks

\* C4: after construction and after every public operation, consecutive
\* windows are contiguous: windows[i].end = windows[i+1].start.
C4_Contiguous ==
    pc = "ready" =>
        \A i \in 1 .. (Len(buckets) - 1) :
            buckets[i].endTime = buckets[i + 1].startTime

\* C5, in the case the claim singles out: when the clock has advanced past
\* the end of every window of the wheel, the head window left by the
\* re-anchor of a public operation ends later than the current time.
C5_HeadNotElapsed ==
    (/\ last.op \in PublicOps
     /\ \A i \in 1 .. Len(last.before) : last.before[i].endTime < last.at)
        => last.mid[1].endTime > last.at

\* C6 as stated: Due() returns exactly the items of the re-anchored head
\* window whose due time is at or before the current time and removes
\* exactly those; the items due strictly after the current time remain.
C6_DueAtOrBefore ==
    last.op = "Due" =>
        /\ last.ret = DueAtOrBefore(last.mid[1].elements, last.at)
        /\ buckets[1].elements = DueAfter(last.mid[1].elements, last.at)

\* C6 as amended: Due() returns exactly the items of the re-anchored head
\* window whose due time is strictly before the current time and removes
\* exactly those; the items due at or after the current time remain.
C6_DueStrictlyBefore ==
    last.op = "Due" =>
        /\ last.ret = DueBefore(last.mid[1].elements, last.at)
        /\ buckets[1].elements = DueAtOrAfter(last.mid[1].elements, last.at)

\* a Due() that returned an item and left in the head an item that is due
\* at exactly the current time
C6_Witness ==
    /\ last.op = "Due"
    /\ Len(last.ret) >= 1
    /\ \E i \in 1 .. Len(buckets[1].elements) :
           buckets[1].elements[i].due = last.at

\* C7: AddReminder stores an item due before the start of the re-anchored
\* head window in the head window, and an item due after the end of the
\* tail window in the tail window; nothing else changes.
C7_CatchAll ==
    last.op = "AddReminder" =>
        LET mid == last.mid
            n == Len(mid)
            e == last.entity
        IN  /\ e.due < mid[1].startTime =>
                buckets = [mid EXCEPT ![1].elements = Append(@, e)]
            /\ e.due > mid[n].endTime =>
                buckets = [mid EXCEPT ![n].elements = Append(@, e)]

\* an AddReminder that stored an item due beyond the tail in the tail
\* window, while the head window holds an item due before the head's start
C7_Witness ==
    /\ last.op = "AddReminder"
    /\ last.entity.due > last.mid[Len(last.mid)].endTime
    /\ CountIn(buckets[Len(buckets)].elements, last.entity.id) = 1
    /\ \E i \in 1 .. Len(buckets[1].elements) :
           buckets[1].elements[i].due < buckets[1].startTime

\* C8: AddReminder appends the item to exactly one window (for an in-range
\* due time, the unique window with start < due < end), except when the
\* due time equals a window boundary, and then it is appended to none.
C8_ExactlyOne ==
    last.op = "AddReminder" =>
        LET mid == last.mid
            e == last.entity
            changed == {i \in 1 .. Len(mid) : buckets[i] # mid[i]}
        IN  IF IsBoundary(mid, e.due)
            THEN buckets = mid
            ELSE /\ Len(buckets) = Len(mid)
                 /\ Cardinality(changed) = 1
                 /\ \A i \in changed :
                        /\ buckets[i] = AddEntity(mid[i], e)
                        /\ (mid[1].startTime < e.due /\ e.due < mid[Len(mid)].endTime)
                               => Contains(mid[i], e.due)

\* C9: running update when the head window has not elapsed leaves the
\* window sequence (length, bounds, items) as it was.
C9_Idempotent ==
    (last.op = "Dump" /\ ~Past(last.before[1], last.at)) =>
        last.mid = last.before

\* C10: no Due() returns an item before its due time, and a Due() made
\* after the due time of an added item (not due on a window boundary) finds
\* it already returned or returns it.
C10_DueInTime ==
    last.op = "Due" =>
        /\ \A i \in 1 .. Len(last.ret) : last.ret[i].due <= last.at
        /\ \A it \in added :
               (it.id \notin exact /\ it.due < last.at) => returned[it.id] >= 1

\* C12: with numBlocks >= 1 no public operation panics: every slice index
\* of update() and of the removal loop of Due() is within bounds.
C12_NoPanic == numBlocks >= 1 => pc # "panic"

\* a Due() on a wheel built with numBlocks >= 1 whose removal loop removed
\* two or more items
C12_Witness ==
    /\ numBlocks >= 1
    /\ pc = "ready"
    /\ last.op = "Due"
    /\ Len(last.ret) >= 2

\* C13: a scheduler built with numBlocks <= 0 never fails inside
\* AddReminder, Due or Dump (the construction is refused instead).
C13_FailFast == numBlocks <= 0 => pc # "panic"

\* C16 as stated: a window is elapsed at the instant now = end, so a
\* re-anchor at the instant the head window ends retires the head window.
C16_ElapsedAtEnd ==
    (last.op \in PublicOps /\ last.before[1].endTime = last.at)
        => last.startIdx >= 1

\* C16 as amended: a window is elapsed exactly when now is strictly after
\* its end: every window a re-anchor retires ended before now, the first
\* window it keeps has not, and a head window with now = end is kept.
C16_ElapsedAfterEnd ==
    last.op \in PublicOps =>
        /\ \A i \in 1 .. last.startIdx : last.before[i].endTime < last.at
        /\ last.startIdx >= 1 => last.before[last.startIdx + 1].endTime >= last.at
        /\ last.before[1].endTime >= last.at =>
               /\ last.startIdx = 0
               /\ last.mid[1].startTime = last.before[1].startTime
               /\ last.mid[1].endTime = last.before[1].endTime

\* a re-anchor made at the instant the head window ends, with later windows
\* behind it, that kept the head window
C16_Witness ==
    /\ last.op \in PublicOps
    /\ Len(last.before) >= 2
    /\ last.before[1].endTime = last.at
    /\ last.mid[1].endTime = last.at

\* C17: every window of the wheel, created by NewScheduler or appended by a
\* re-anchor, has start < end and end - start = blockSize.
C17_WindowWidth ==
    \A i \in 1 .. Len(buckets) :
        /\ buckets[i].startTime < buckets[i].endTime
        /\ buckets[i].endTime - buckets[i].startTime = BlockSize

\* a re-anchor that dropped windows and appended more than one new window
C17_Witness ==
    /\ pc = "ready"
    /\ last.op \in PublicOps
    /\ last.startIdx >= 1
    /\ Len(buckets) > numBlocks

\* C18: the extraction step of Due() leaves every window behind the
\* re-anchored head as it is, and every item it returns was in the head.
C18_DueFrame ==
    last.op = "Due" =>
        /\ Len(buckets) = Len(last.mid)
        /\ \A i \in 2 .. Len(buckets) : buckets[i] = last.mid[i]
        /\ buckets[1].startTime = last.mid[1].startTime
        /\ buckets[1].endTime = last.mid[1].endTime
        /\ \A id \in Ids :
               CountIn(last.ret, id) <= CountIn(last.mid[1].elements, id)

\* a Due() that left, in a window behind the head, an item whose due time
\* has passed
C18_Witness ==
    /\ last.op = "Due"
    /\ \E i \in 2 .. Len(buckets) :
           \E k \in 1 .. Len(buckets[i].elements) :
               buckets[i].elements[k].due < last.at

\* C19: the windows are strictly ascending and never overlap, during and
\* after construction, so no timestamp is contained by two windows.
C19_Ascending ==
    /\ \A i \in 1 .. (Len(buckets) - 1) :
           /\ buckets[i].startTime < buckets[i + 1].startTime
           /\ buckets[i].endTime <= buckets[i + 1].startTime
    /\ \A i, j \in 1 .. Len(buckets) :
           i # j => \A t \in buckets[i].startTime .. buckets[i].endTime :
                        ~(Contains(buckets[i], t) /\ Contains(buckets[j], t))

\* a wheel built while the clock advanced between two clock reads of
\* NewScheduler, after a re-anchor that appended windows
C19_Witness ==
    /\ last.op \in PublicOps
    /\ last.startIdx >= 1
    /\ \E i \in 1 .. (Len(buckets) - 1) :
           buckets[i].endTime < buckets[i + 1].startTime

\* the items of a sequence at the positions of a set, in sequence order
RECURSIVE RestrictFrom(_, _, _)
RestrictFrom(elems, S, i) ==
    IF i > Len(elems) THEN <<>>
    ELSE (IF i \in S THEN <<elems[i]>> ELSE <<>>) \o RestrictFrom(elems, S, i + 1)

Restrict(elems, S) == RestrictFrom(elems, S, 1)

\* the positions of the items of a sequence that are due at time t
DuePositions(elems, t) == {i \in 1 .. Len(elems) : elems[i].due < t}

\* C14: Due() is a stable partition of the head window: it returns the due
\* items in their original relative order and leaves exactly the items
\* that are not due, in their original relative order.
C14_StablePartition ==
    last.op = "Due" =>
        LET head == last.mid[1].elements
            P == DuePositions(head, last.at)
        IN  /\ last.ret = Restrict(head, P)
            /\ buckets[1].elements = Restrict(head, (1 .. Len(head)) \ P)

\* a Due() on a head window that held a due item, then an item not due,
\* then a due item
C14_Witness ==
    /\ last.op = "Due"
    /\ Len(last.mid[1].elements) >= 3
    /\ DuePositions(last.mid[1].elements, last.at) = {1, 3}
    /\ Len(last.ret) = 2
    /\ Len(buckets[1].elements) = Len(last.mid[1].elements) - 2

\* the items of the first n windows, in window order, then insertion order
RECURSIVE ItemsOfFirst(_, _)
ItemsOfFirst(bkts, n) ==
    IF n = 0 THEN <<>> ELSE ItemsOfFirst(bkts, n - 1) \o bkts[n].elements

\* a re-anchor dropped windows that held items, and the new head window
\* already held items of its own
SalvageIntoNonEmptyHead ==
    /\ last.op \in PublicOps
    /\ last.startIdx >= 1
    /\ last.before[last.startIdx + 1].elements # <<>>
    /\ ItemsOfFirst(last.before, last.startIdx) # <<>>

\* C15 as stated: the salvaged items are placed before the new head
\* window's own items, in window order, then insertion order.
C15_Prepended ==
    SalvageIntoNonEmptyHead =>
        last.mid[1].elements =
            ItemsOfFirst(last.before, last.startIdx)
                \o last.before[last.startIdx + 1].elements

\* C15 as amended: the new head window's own items stay first, in their
\* order, and the items update() collected follow them in the order they
\* were collected; when one window is dropped, these are that window's
\* items in insertion order.
C15_Appended ==
    SalvageIntoNonEmptyHead =>
        LET own == last.before[last.startIdx + 1].elements
        IN  /\ SubSeq(last.mid[1].elements, 1, Len(own)) = own
            /\ SubSeq(last.mid[1].elements, Len(own) + 1, Len(last.mid[1].elements))
                   = OverdueItems(last.before, last.startIdx)
            /\ last.startIdx = 1 =>
                   last.mid[1].elements = own \o last.before[1].elements

\* a re-anchor that dropped one window holding an item and moved the item
\* into a new head window that held an item of its own
C15_Witness ==
    /\ SalvageIntoNonEmptyHead
    /\ last.startIdx = 1
    /\ Len(last.mid[1].elements) >= 2

\* a step that is a Due() call made right after a Due() call, with the clock
\* where the first call read it and no other operation in between
SecondDueStep ==
    /\ last.op = "Due"
    /\ last.at = now
    /\ last'.op = "Due"
    /\ ops' = ops + 1
    /\ now' = now

\* C20: the second of two Due() calls made in immediate succession with the
\* clock unchanged returns nothing and leaves every window's items as the
\* first call left them; the items the first call returned are stored
\* nowhere in the wheel.
C20_SecondDueNoOp ==
    [][SecondDueStep =>
          /\ last'.ret = <<>>
          /\ \A i \in 1 .. Len(last.ret) : Stored(buckets, last.ret[i].id) = 0
          /\ \A i \in 1 .. Len(buckets) :
                 buckets[i].elements # <<>> =>
                     \E j \in 1 .. Len(buckets') : buckets'[j] = buckets[i]]_vars

\* the positions of a caller that is inside a public operation, past Lock()
Inside == {"locked", "updated", "unlocking"}

\* C11: a caller inside a public operation holds the scheduler mutex from
\* before its re-anchor until it returns, so no two callers are inside at
\* once, and no other caller's step falls between its steps: the buckets it
\* works on are those it found when it locked, then those its own update()
\* left.
C11_Serialized ==
    /\ \A t \in Threads : tpc[t] \in Inside => mutex = t
    /\ \A t, u \in Threads : (tpc[t] \in Inside /\ tpc[u] \in Inside) => t = u
    /\ \A t \in Threads :
           /\ tpc[t] = "locked" => buckets = call[t].before
           /\ tpc[t] = "updated" => buckets = call[t].mid

\* the second caller is inside an operation, after its own update(), once
\* the first caller's operation has finished, with the buckets the first
\* operation left
C11_Witness ==
    /\ tpc[2] = "updated"
    /\ tpc[1] = "idle"
    /\ ops = 2
    /\ last.op \in PublicOps
    /\ call[2].before # <<>>
    /\ call[2].mid = buckets

=============================================================================
